---- MODULE Spec2Model ----
(***************************************************************************)
(* A model of src/wtx.py: the witness-format transaction codec (Tx, TxIn,  *)
(* TxOut), the legacy signature digest, signing and verification, and the *)
(* class-level previous-transaction cache.                                *)
(*                                                                         *)
(* Bytes are naturals 0..255 and a byte string is a sequence of them.      *)
(* Python integers are unbounded while TLC's are 32 bits wide, so an       *)
(* integer field (version, prev_index = 0xffffffff, an 8-byte amount) is   *)
(* held as its canonical numeral: the little-endian base-256 digits with   *)
(* no trailing zero digit.  Two integers are equal exactly when their      *)
(* numerals are.                                                           *)
(*                                                                         *)
(* A call that raises is a result whose exc field names the exception; a   *)
(* call that returns has exc = "".                                         *)
(***************************************************************************)
EXTENDS Integers, Sequences, FiniteSets, TLC

VARIABLES
    tx,          \* the Tx object the calls are made on
    have,        \* "new": no object yet; "tx": it exists; "failed": its creation raised
    stream,      \* the byte stream handed to Tx.parse, if the object was parsed
    cache,       \* TxIn.cache: previous id -> fetched Tx
    ret,         \* the last call: its name, arguments, outcome
    serialized,  \* the Tx objects serialize() ran on inside the last call
    hist,        \* the sig_hash call before the last one
    tampered,    \* the inputs whose signature bytes the caller changed
    signed       \* the input last handed to sign_input while unsigned with a
                 \* p2pkh previous output, the transaction unchanged since

vars == <<tx, have, stream, cache, ret, serialized, hist, tampered, signed>>

----------------------------------------------------------------------------
(* Bounds of the model *)

MaxIns == 2
MaxOuts == 1
MaxItems == 2

----------------------------------------------------------------------------
(* Byte strings and numerals *)

Min(a, b) == IF a < b THEN a ELSE b

Zeros(n) == [i \in 1..n |-> 0]

Reverse(s) == [i \in 1..Len(s) |-> s[Len(s) + 1 - i]]

\* s.read(n) on a BytesIO returns at most n bytes: a short read at the end
Take(s, n) == SubSeq(s, 1, Min(n, Len(s)))

Drop(s, n) == SubSeq(s, Min(n, Len(s)) + 1, Len(s))

RECURSIVE Canon(_)
Canon(b) ==
    IF b = <<>> THEN <<>>
    ELSE IF b[Len(b)] = 0 THEN Canon(SubSeq(b, 1, Len(b) - 1))
    ELSE b

RECURSIVE NumOf(_)
NumOf(k) == IF k = 0 THEN <<>> ELSE <<k % 256>> \o NumOf(k \div 256)

\* a numeral as a count or an index; every stream and list of the model is
\* shorter than 256, so any value of two digits or more acts as 256
NatOf(n) == IF n = <<>> THEN 0 ELSE IF Len(n) = 1 THEN n[1] ELSE 256

Ok(v, r) == [exc |-> "", val |-> v, rest |-> r]

Raise(e) == [exc |-> e, val |-> <<>>, rest |-> <<>>]

\* r, unless it returned: then what F makes of it (an exception propagates)
Then(r, F(_)) == IF r.exc # "" THEN r ELSE F(r)

Bind(v, F(_)) == F(v)

----------------------------------------------------------------------------
(* helper.py: integers, varints, the double hash *)

little_endian_to_int(b) == Canon(b)

int_to_little_endian(n, length) == n \o Zeros(length - Len(n))

read_varint(s) ==
    IF s = <<>> THEN Raise("IndexError")
    ELSE LET i == s[1]
             r == Tail(s)
         IN IF i = 253 THEN Ok(little_endian_to_int(Take(r, 2)), Drop(r, 2))
            ELSE IF i = 254 THEN Ok(little_endian_to_int(Take(r, 4)), Drop(r, 4))
            ELSE IF i = 255 THEN Ok(little_endian_to_int(Take(r, 8)), Drop(r, 8))
            ELSE Ok(NumOf(i), r)

encode_varint(i) ==
    IF Len(i) = 0 \/ (Len(i) = 1 /\ i[1] < 253) THEN <<NatOf(i)>>
    ELSE IF Len(i) <= 2 THEN <<253>> \o int_to_little_endian(i, 2)
    ELSE IF Len(i) <= 4 THEN <<254>> \o int_to_little_endian(i, 4)
    ELSE <<255>> \o int_to_little_endian(i, 8)

\* a collision-free hash: the digest stands for its own preimage
double_sha256(b) == <<256>> \o b

----------------------------------------------------------------------------
(* script.py: a script is a list of elements, an opcode or pushed data *)

Op(n) == [push |-> FALSE, op |-> n, data |-> <<>>]

Data(d) == [push |-> TRUE, op |-> 0, data |-> d]

Script(elements) == [elements |-> elements]

RECURSIVE parse_elements(_)
parse_elements(b) ==
    IF b = <<>> THEN <<>>
    ELSE IF b[1] > 0 /\ b[1] <= 75
         THEN <<Data(Take(Tail(b), b[1]))>> \o parse_elements(Drop(Tail(b), b[1]))
         ELSE <<Op(b[1])>> \o parse_elements(Tail(b))

Script_parse(b) == Script(parse_elements(b))

RECURSIVE serialize_elements(_)
serialize_elements(es) ==
    IF es = <<>> THEN <<>>
    ELSE (IF es[1].push THEN <<Len(es[1].data)>> \o es[1].data ELSE <<es[1].op>>)
         \o serialize_elements(Tail(es))

Script_serialize(sc) == serialize_elements(sc.elements)

----------------------------------------------------------------------------
(* TxIn and TxOut *)

TxIn(prev_tx, prev_index, script_sig, sequence) ==
    [prev_tx |-> prev_tx, prev_index |-> prev_index,
     script_sig |-> Script_parse(script_sig), sequence |-> sequence]

TxIn_parse(s) ==
    Then(read_varint(Drop(Drop(s, 32), 4)),
         LAMBDA n :
            Ok(TxIn(Reverse(Take(s, 32)),
                    little_endian_to_int(Take(Drop(s, 32), 4)),
                    Take(n.rest, NatOf(n.val)),
                    little_endian_to_int(Take(Drop(n.rest, NatOf(n.val)), 4))),
               Drop(Drop(n.rest, NatOf(n.val)), 4)))

TxIn_serialize(i) ==
    Reverse(i.prev_tx)
    \o int_to_little_endian(i.prev_index, 4)
    \o encode_varint(NumOf(Len(Script_serialize(i.script_sig))))
    \o Script_serialize(i.script_sig)
    \o int_to_little_endian(i.sequence, 4)

TxOut(amount, script_pubkey) ==
    [amount |-> amount, script_pubkey |-> Script_parse(script_pubkey)]

TxOut_parse(s) ==
    Then(read_varint(Drop(s, 8)),
         LAMBDA n :
            Ok(TxOut(little_endian_to_int(Take(s, 8)), Take(n.rest, NatOf(n.val))),
               Drop(n.rest, NatOf(n.val))))

TxOut_serialize(o) ==
    int_to_little_endian(o.amount, 8)
    \o encode_varint(NumOf(Len(Script_serialize(o.script_pubkey))))
    \o Script_serialize(o.script_pubkey)

----------------------------------------------------------------------------
(* Tx: construction, parse, the two serializations, the two identifiers *)

None == [isNone |-> TRUE, val |-> <<>>]

Some(v) == [isNone |-> FALSE, val |-> v]

Tx(version, tx_ins, tx_outs, locktime, witnesses, flag, testnet) ==
    [version |-> version, tx_ins |-> tx_ins, tx_outs |-> tx_outs,
     locktime |-> locktime, testnet |-> testnet, witnesses |-> witnesses,
     flag |-> flag]

RECURSIVE parse_inputs(_, _)
parse_inputs(s, n) ==
    IF n = 0 THEN Ok(<<>>, s)
    ELSE Then(TxIn_parse(s), LAMBDA i :
         Then(parse_inputs(i.rest, n - 1), LAMBDA more :
         Ok(<<i.val>> \o more.val, more.rest)))

RECURSIVE parse_outputs(_, _)
parse_outputs(s, n) ==
    IF n = 0 THEN Ok(<<>>, s)
    ELSE Then(TxOut_parse(s), LAMBDA o :
         Then(parse_outputs(o.rest, n - 1), LAMBDA more :
         Ok(<<o.val>> \o more.val, more.rest)))

\* one witness stack: num_witness items, each a varint length and that many
\* bytes, or as many as the stream still holds
RECURSIVE parse_stack(_, _)
parse_stack(s, n) ==
    IF n = 0 THEN Ok(<<>>, s)
    ELSE Then(read_varint(s), LAMBDA sz_witness :
         Then(parse_stack(Drop(sz_witness.rest, NatOf(sz_witness.val)), n - 1), LAMBDA more :
         Ok(<<Take(sz_witness.rest, NatOf(sz_witness.val))>> \o more.val, more.rest)))

RECURSIVE parse_witnesses(_, _)
parse_witnesses(s, n) ==
    IF n = 0 THEN Ok(<<>>, s)
    ELSE Then(read_varint(s), LAMBDA num_witness :
         Then(parse_stack(num_witness.rest, NatOf(num_witness.val)), LAMBDA stack :
         Then(parse_witnesses(stack.rest, n - 1), LAMBDA more :
         Ok(<<stack.val>> \o more.val, more.rest))))

\* the Tx that parse returns: the flag it read is not passed on
parsed_tx(version, inputs, outputs, locktime, witnesses, flag) ==
    Tx(version, inputs, outputs, locktime, Some(witnesses), 1, FALSE)

Tx_parse(s) ==
    IF Drop(s, 4) = <<>> THEN Raise("IndexError")
    ELSE IF Drop(s, 4)[1] # 0 THEN Raise("RuntimeError: marker must be zero")
    ELSE IF Drop(s, 5) = <<>> THEN Raise("IndexError")
    ELSE IF Drop(s, 5)[1] = 0 THEN Raise("RuntimeError: flag must be nonzero")
    ELSE Then(read_varint(Drop(s, 6)), LAMBDA num_inputs :
         Then(parse_inputs(num_inputs.rest, NatOf(num_inputs.val)), LAMBDA inputs :
         Then(read_varint(inputs.rest), LAMBDA num_outputs :
         Then(parse_outputs(num_outputs.rest, NatOf(num_outputs.val)), LAMBDA outputs :
         Then(parse_witnesses(outputs.rest, NatOf(num_inputs.val)), LAMBDA witnesses :
         Ok(parsed_tx(little_endian_to_int(Take(s, 4)), inputs.val, outputs.val,
                      little_endian_to_int(Take(witnesses.rest, 4)), witnesses.val,
                      Drop(s, 5)[1]),
            Drop(witnesses.rest, 4)))))))

RECURSIVE serialize_ins(_)
serialize_ins(ins) ==
    IF ins = <<>> THEN <<>> ELSE TxIn_serialize(ins[1]) \o serialize_ins(Tail(ins))

RECURSIVE serialize_outs(_)
serialize_outs(outs) ==
    IF outs = <<>> THEN <<>> ELSE TxOut_serialize(outs[1]) \o serialize_outs(Tail(outs))

RECURSIVE serialize_stack(_)
serialize_stack(st) ==
    IF st = <<>> THEN <<>>
    ELSE encode_varint(NumOf(Len(st[1]))) \o st[1] \o serialize_stack(Tail(st))

Tx_nw_serialize(t) ==
    int_to_little_endian(t.version, 4)
    \o encode_varint(NumOf(Len(t.tx_ins)))
    \o serialize_ins(t.tx_ins)
    \o encode_varint(NumOf(Len(t.tx_outs)))
    \o serialize_outs(t.tx_outs)
    \o int_to_little_endian(t.locktime, 4)

\* the witness loop of serialize, from stack ix (1-based) on: self.witnesses[ix]
\* raises TypeError when witnesses is None, IndexError when it is too short
RECURSIVE serialize_witnesses(_, _)
serialize_witnesses(t, ix) ==
    IF ix > Len(t.tx_ins) THEN Ok(<<>>, <<>>)
    ELSE IF t.witnesses.isNone THEN Raise("TypeError")
    ELSE IF ix > Len(t.witnesses.val) THEN Raise("IndexError")
    ELSE Then(serialize_witnesses(t, ix + 1), LAMBDA more :
         Ok(encode_varint(NumOf(Len(t.witnesses.val[ix])))
            \o serialize_stack(t.witnesses.val[ix]) \o more.val, <<>>))

Tx_serialize(t) ==
    Then(serialize_witnesses(t, 1), LAMBDA w :
         Ok(int_to_little_endian(t.version, 4)
            \o <<0>>
            \o <<t.flag>>
            \o encode_varint(NumOf(Len(t.tx_ins)))
            \o serialize_ins(t.tx_ins)
            \o encode_varint(NumOf(Len(t.tx_outs)))
            \o serialize_outs(t.tx_outs)
            \o w.val
            \o int_to_little_endian(t.locktime, 4), <<>>))

Tx_txid(t) == Reverse(double_sha256(Tx_nw_serialize(t)))

\* a hash() that hashes the bytes txid() hashes
Tx_hash_nw(t) == Ok(Reverse(double_sha256(Tx_nw_serialize(t))), <<>>)

Tx_hash(t) ==
    Then(Tx_serialize(t), LAMBDA s : Ok(Reverse(double_sha256(s.val)), <<>>))

----------------------------------------------------------------------------
(* script.py: what the Tx code asks of a script *)

\* OP_DUP OP_HASH160 <20 bytes> OP_EQUALVERIFY OP_CHECKSIG is p2pkh,
\* OP_HASH160 <20 bytes> OP_EQUAL is p2sh
Script_type(sc) ==
    LET e == sc.elements
    IN IF Len(e) = 5 /\ e[1] = Op(118) /\ e[2] = Op(169) /\ e[3].push
          /\ Len(e[3].data) = 20 /\ e[4] = Op(136) /\ e[5] = Op(172)
       THEN "p2pkh"
       ELSE IF Len(e) = 3 /\ e[1] = Op(169) /\ e[2].push
               /\ Len(e[2].data) = 20 /\ e[3] = Op(135)
       THEN "p2sh"
       ELSE "unknown"

\* a multisig unlocking script is OP_0, the signatures, the redeem script
IsMultisigSig(sc) == Len(sc.elements) >= 2 /\ sc.elements[1] = Op(0)

Script_redeem_script(sc) ==
    IF sc.elements = <<>> THEN <<>> ELSE sc.elements[Len(sc.elements)].data

Script_num_sigs_required(sc) ==
    IF IsMultisigSig(sc) THEN Len(sc.elements) - 2
    ELSE IF Len(sc.elements) = 2 THEN 1
    ELSE 0

Script_der_signature(sc, index) ==
    IF IsMultisigSig(sc) THEN sc.elements[index + 2].data
    ELSE sc.elements[1].data

\* the keys of a multisig are the redeem script's elements after OP_m
Script_sec_pubkey(sc, index) ==
    IF IsMultisigSig(sc)
    THEN Bind(parse_elements(Script_redeem_script(sc)), LAMBDA r :
              IF index + 2 <= Len(r) THEN r[index + 2].data ELSE <<>>)
    ELSE sc.elements[2].data

----------------------------------------------------------------------------
(* ecc.py: a private key is a byte k; its public key encodes as <<2, k>>, *)
(* its signature over the digest z as <<48, k>> \o z, and no other bytes  *)
(* verify under that key for that digest                                  *)

PrivateKey_sec(k) == <<2, k>>

PrivateKey_sign_der(k, z) == <<48, k>> \o z

S256Point_parse(sec) == sec

Signature_parse(der) == der

S256Point_verify(point, z, signature) ==
    /\ Len(point) = 2
    /\ point[1] = 2
    /\ signature = <<48, point[2]>> \o z

----------------------------------------------------------------------------
(* The previous-transaction lookup and the class-level cache *)

\* a result of a call that may fetch: the cache after it, the lookups made
\* and the Tx objects serialize() ran on
Res(exc, val, c, n, ser) ==
    [exc |-> exc, val |-> val, cache |-> c, lookups |-> n, ser |-> ser]

\* self.cache[self.prev_tx] = tx
cache_put(c, id, t) == [k \in DOMAIN c \cup {id} |-> IF k = id THEN t ELSE c[k]]

\* a fetch_tx() that asks the server a second time when the lookup fails
TxIn_fetch_tx_retry(i, testnet, c, resp) ==
    IF i.prev_tx \in DOMAIN c THEN Res("", c[i.prev_tx], c, 0, {})
    ELSE IF resp.kind = "transport" THEN Res("ConnectionError", <<>>, c, 2, {})
    ELSE IF resp.kind = "notfound" THEN Res("RuntimeError: got from server", <<>>, c, 2, {})
    ELSE Bind(Tx_parse(resp.raw), LAMBDA p :
         IF p.exc # "" THEN Res(p.exc, <<>>, c, 1, {})
         ELSE Res("", p.val, cache_put(c, i.prev_tx, p.val), 1, {}))

\* resp is what requests.get answers this time: a transport failure, a JSON
\* body without 'rawtx', or the raw bytes
TxIn_fetch_tx(i, testnet, c, resp) ==
    IF i.prev_tx \in DOMAIN c THEN Res("", c[i.prev_tx], c, 0, {})
    ELSE IF resp.kind = "transport" THEN Res("ConnectionError", <<>>, c, 1, {})
    ELSE IF resp.kind = "notfound" THEN Res("RuntimeError: got from server", <<>>, c, 1, {})
    ELSE Bind(Tx_parse(resp.raw), LAMBDA p :
         IF p.exc # "" THEN Res(p.exc, <<>>, c, 1, {})
         ELSE Res("", p.val, cache_put(c, i.prev_tx, p.val), 1, {}))

TxIn_script_pubkey(i, testnet, c, resp) ==
    Then(TxIn_fetch_tx(i, testnet, c, resp), LAMBDA f :
         IF NatOf(i.prev_index) >= Len(f.val.tx_outs)
         THEN Res("IndexError", <<>>, f.cache, f.lookups, {})
         ELSE Res("", f.val.tx_outs[NatOf(i.prev_index) + 1].script_pubkey,
                  f.cache, f.lookups, {}))

TxIn_der_signature(i, index) ==
    Bind(Script_der_signature(i.script_sig, index), LAMBDA signature :
         IF signature = <<>> THEN Raise("IndexError")
         ELSE Ok(<<SubSeq(signature, 1, Len(signature) - 1), signature[Len(signature)]>>,
                 <<>>))

TxIn_sec_pubkey(i, index) == Script_sec_pubkey(i.script_sig, index)

TxIn_redeem_script(i) == Script_redeem_script(i.script_sig)

----------------------------------------------------------------------------
(* The signature digest, verification, signing *)

\* clone inputs that keep the unlocking scripts
alt_tx_ins_keep(t) == [k \in 1..Len(t.tx_ins) |-> t.tx_ins[k]]

\* the clone's inputs: every unlocking script blank
alt_tx_ins(t) ==
    [k \in 1..Len(t.tx_ins) |->
        TxIn(t.tx_ins[k].prev_tx, t.tx_ins[k].prev_index, <<>>, t.tx_ins[k].sequence)]

\* the clone: built without witnesses= and flag=, so witnesses is None
alt_tx(t, input_index, script_sig) ==
    Tx(t.version,
       [alt_tx_ins(t) EXCEPT ![input_index + 1].script_sig = script_sig],
       t.tx_outs, t.locktime, None, 1, FALSE)

\* the bytes of the clone that sig_hash hashes: alt_tx.serialize()
sig_hash_serialization(a) == Tx_serialize(a)

\* the digest of clone a under hash_type, after the resolution sp
sig_hash_digest(a, hash_type, sp) ==
    Bind(sig_hash_serialization(a), LAMBDA s :
         IF s.exc # "" THEN Res(s.exc, <<>>, sp.cache, sp.lookups, {a})
         ELSE Res("", Canon(Reverse(double_sha256(
                          s.val \o int_to_little_endian(NumOf(hash_type), 4)))),
                  sp.cache, sp.lookups, {a}))

Tx_sig_hash(t, input_index, hash_type, c, resp) ==
    IF input_index >= Len(t.tx_ins) THEN Res("IndexError", <<>>, c, 0, {})
    ELSE Then(TxIn_script_pubkey(alt_tx_ins(t)[input_index + 1], t.testnet, c, resp),
              LAMBDA sp :
                 IF Script_type(sp.val) = "p2pkh"
                 THEN sig_hash_digest(alt_tx(t, input_index, sp.val), hash_type, sp)
                 ELSE IF Script_type(sp.val) = "p2sh"
                 THEN sig_hash_digest(
                          alt_tx(t, input_index,
                                 Script_parse(TxIn_redeem_script(t.tx_ins[input_index + 1]))),
                          hash_type, sp)
                 ELSE Res("RuntimeError: no valid sig_type", <<>>, sp.cache, sp.lookups, {}))

RECURSIVE verify_loop(_, _, _, _, _, _, _, _)
verify_loop(t, input_index, sig_num, sigs_required, c, resp, n, ser) ==
    IF sig_num >= sigs_required THEN Res("", TRUE, c, n, ser)
    ELSE Bind(TxIn_der_signature(t.tx_ins[input_index + 1], sig_num), LAMBDA ds :
         IF ds.exc # "" THEN Res(ds.exc, <<>>, c, n, ser)
         ELSE Bind(Tx_sig_hash(t, input_index, ds.val[2], c, resp), LAMBDA z :
              IF z.exc # ""
              THEN Res(z.exc, <<>>, z.cache, n + z.lookups, ser \cup z.ser)
              ELSE IF ~S256Point_verify(
                          S256Point_parse(TxIn_sec_pubkey(t.tx_ins[input_index + 1], sig_num)),
                          z.val, Signature_parse(ds.val[1]))
              THEN Res("", FALSE, z.cache, n + z.lookups, ser \cup z.ser)
              ELSE verify_loop(t, input_index, sig_num + 1, sigs_required,
                               z.cache, resp, n + z.lookups, ser \cup z.ser)))

Tx_verify_input(t, input_index, c, resp) ==
    IF input_index >= Len(t.tx_ins) THEN Res("IndexError", <<>>, c, 0, {})
    ELSE verify_loop(t, input_index, 0,
                     Script_num_sigs_required(t.tx_ins[input_index + 1].script_sig),
                     c, resp, 0, {})

\* input input_index of t with the script [sig, sec] installed
with_script_sig(t, input_index, sig, sec) ==
    [t EXCEPT !.tx_ins[input_index + 1].script_sig = Script(<<Data(sig), Data(sec)>>)]

\* a sign_input() whose sig_hash blanks the unlocking scripts of the
\* transaction's own inputs instead of those of a copy
Tx_sign_input_blanking(t, input_index, private_key, hash_type, c, resp) ==
    Bind(Tx_sig_hash(t, input_index, hash_type, c, resp), LAMBDA z :
         [tx |-> [t EXCEPT !.tx_ins = alt_tx_ins(t)]] @@ z)

\* the result carries the Tx as the call leaves it (field tx)
Tx_sign_input(t, input_index, private_key, hash_type, c, resp) ==
    Bind(Tx_sig_hash(t, input_index, hash_type, c, resp), LAMBDA z :
         IF z.exc # "" THEN [tx |-> t] @@ z
         ELSE Bind(with_script_sig(t, input_index,
                                   PrivateKey_sign_der(private_key, z.val) \o <<hash_type>>,
                                   PrivateKey_sec(private_key)), LAMBDA t2 :
              Bind(Tx_verify_input(t2, input_index, z.cache, resp), LAMBDA v :
              [tx |-> t2] @@ Res(v.exc, v.val, v.cache, z.lookups + v.lookups,
                                 z.ser \cup v.ser))))

----------------------------------------------------------------------------
(* Coinbase *)

\* an is_coinbase() that leaves out the test of prev_index
Tx_is_coinbase_no_index(t) ==
    IF Len(t.tx_ins) # 1 THEN FALSE
    ELSE IF t.tx_ins[1].prev_tx # Zeros(32) THEN FALSE
    ELSE TRUE

Tx_is_coinbase(t) ==
    IF Len(t.tx_ins) # 1 THEN FALSE
    ELSE IF t.tx_ins[1].prev_tx # Zeros(32) THEN FALSE
    ELSE IF t.tx_ins[1].prev_index # <<255, 255, 255, 255>> THEN FALSE
    ELSE TRUE

\* isNone: the call returned None; val is the height when exc = "" and not isNone
Tx_coinbase_height(t) ==
    IF ~Tx_is_coinbase(t) THEN [exc |-> "", isNone |-> TRUE, val |-> <<>>]
    ELSE Bind(t.tx_ins[1].script_sig.elements, LAMBDA elements :
         IF elements = <<>> THEN [exc |-> "IndexError", isNone |-> FALSE, val |-> <<>>]
         ELSE IF ~elements[1].push THEN [exc |-> "TypeError", isNone |-> FALSE, val |-> <<>>]
         ELSE [exc |-> "", isNone |-> FALSE, val |-> little_endian_to_int(elements[1].data)])

----------------------------------------------------------------------------
(* The inputs of the model: field values, wire buffers, lookup answers *)

ZeroId == Zeros(32)

IdA == <<171>> \o Zeros(31)

IdB == <<187, 1>> \o Zeros(30)

U32Max == <<255, 255, 255, 255>>

H20 == [i \in 1..20 |-> 17]

P2pkhRaw == <<118, 169, 20>> \o H20 \o <<136, 172>>

P2shRaw == <<169, 20>> \o H20 \o <<135>>

OtherRaw == <<81>>

\* a push of the 3-byte height 200000
HeightRaw == <<3, 64, 13, 3>>

\* a signature push (key 1, digest <<9>>, hash type 1) and a public key push
SigRaw == <<4, 48, 1, 9, 1, 2, 2, 1>>

\* a signature push and a push of the redeem script <<81, 172>>
RedeemRaw == <<4, 48, 1, 9, 1, 2, 81, 172>>

InD(prev_tx, prev_index, script, sequence) ==
    [prev_tx |-> prev_tx, prev_index |-> prev_index, script |-> script,
     sequence |-> sequence]

OutD(amount, script) == [amount |-> amount, script |-> script]

TxD(ins, outs, wits, flag) ==
    [version |-> <<1>>, ins |-> ins, outs |-> outs, wits |-> wits,
     locktime |-> <<2, 1>>, flag |-> flag]

SeqsUpTo(S, n) == UNION {[1..k -> S] : k \in 0..n}

Item(k) == IF k = 1 THEN <<>> ELSE [j \in 1..k |-> 6 + j]

Stack(m) == [k \in 1..m |-> Item(k)]

\* the witness lists tried for n inputs: the same stack on every input, or
\* a full stack on the first input alone
WitChoices(n) ==
    {[k \in 1..n |-> Stack(m)] : m \in 0..MaxItems}
    \cup {[k \in 1..n |-> IF k = 1 THEN Stack(MaxItems) ELSE <<>>]}

CodecIns ==
    {InD(IdA, <<>>, <<>>, U32Max),
     InD(IdA, U32Max, SigRaw, <<254, 255, 255, 255>>),
     InD(ZeroId, U32Max, HeightRaw, U32Max),
     InD(ZeroId, U32Max, <<>>, U32Max),
     InD(ZeroId, <<>>, HeightRaw, U32Max)}

CodecOuts == {OutD(<<80, 195>>, P2pkhRaw), OutD(<<>>, OtherRaw)}

\* transactions with one witness stack per input
WitnessedOf(Ins, Outs, flags) ==
    UNION {{TxD(ins, outs, Some(w), flag) :
               outs \in SeqsUpTo(Outs, MaxOuts), w \in WitChoices(Len(ins)),
               flag \in flags} : ins \in Ins}

UnwitnessedOf(Ins, Outs) ==
    {TxD(ins, outs, None, 1) : ins \in Ins, outs \in SeqsUpTo(Outs, MaxOuts)}

(* The wire format, written out field by field *)

Pad(n, w) == n \o Zeros(w - Len(n))

WireVarint(n) == IF n < 253 THEN <<n>> ELSE <<253, n % 256, n \div 256>>

WireIn(d) ==
    Reverse(d.prev_tx) \o Pad(d.prev_index, 4) \o WireVarint(Len(d.script))
    \o d.script \o Pad(d.sequence, 4)

WireOut(d) == Pad(d.amount, 8) \o WireVarint(Len(d.script)) \o d.script

RECURSIVE WireAll(_, _)
WireAll(W(_), ds) == IF ds = <<>> THEN <<>> ELSE W(ds[1]) \o WireAll(W, Tail(ds))

WireItem(it) == WireVarint(Len(it)) \o it

WireStack(st) == WireVarint(Len(st)) \o WireAll(WireItem, st)

Wire(d, marker) ==
    Pad(d.version, 4) \o <<marker, d.flag>>
    \o WireVarint(Len(d.ins)) \o WireAll(WireIn, d.ins)
    \o WireVarint(Len(d.outs)) \o WireAll(WireOut, d.outs)
    \o WireAll(WireStack, d.wits.val)
    \o Pad(d.locktime, 4)

----------------------------------------------------------------------------
(* Populations *)

\* the inputs that follow the first one
CodecRest ==
    {InD(IdA, <<>>, <<>>, U32Max),
     InD(IdA, U32Max, SigRaw, <<254, 255, 255, 255>>)}

CodecInSeqs ==
    {<<>>} \cup {<<f>> \o r : f \in CodecIns, r \in SeqsUpTo(CodecRest, MaxIns - 1)}

CodecTxDs ==
    WitnessedOf(CodecInSeqs, CodecOuts, {1, 2}) \cup UnwitnessedOf(CodecInSeqs, CodecOuts)

\* complete witness-format buffers: marker 0, flag 1 or 2
WellFormedStreams == {Wire(d, 0) : d \in WitnessedOf(CodecInSeqs, CodecOuts, {1, 2})}

TruncBases ==
    {TxD(<<>>, <<>>, Some(<<>>), 1),
     TxD(<<InD(IdA, <<1>>, SigRaw, U32Max)>>, <<OutD(<<80, 195>>, P2pkhRaw)>>,
         Some(<<Stack(MaxItems)>>), 1)}

\* every proper prefix of a complete buffer
TruncatedStreams ==
    UNION {{Take(Wire(d, 0), n) : n \in 0..(Len(Wire(d, 0)) - 1)} : d \in TruncBases}

BadMarkerStreams == {Wire(d, 1) : d \in TruncBases}

BadFlagStreams == {Wire([d EXCEPT !.flag = 0], 0) : d \in TruncBases}

Streams ==
    WellFormedStreams \cup TruncatedStreams \cup BadMarkerStreams \cup BadFlagStreams

\* the transaction IdA names: a p2pkh, a p2sh and another output
RawA ==
    Wire(TxD(<<>>, <<OutD(<<80, 195>>, P2pkhRaw), OutD(<<64>>, P2shRaw),
                     OutD(<<32>>, OtherRaw)>>, Some(<<>>), 1), 0)

\* the transaction IdB names, as the server holds it: the pre-witness format
RawB ==
    <<1, 0, 0, 0, 1>> \o WireIn(InD(IdA, <<>>, <<>>, U32Max)) \o <<0>> \o Zeros(4)

\* what the lookup may answer for an id: it fails, or it sends that transaction
Responses(id) ==
    {[kind |-> "transport", raw |-> <<>>], [kind |-> "notfound", raw |-> <<>>]}
    \cup (IF id = IdA THEN {[kind |-> "raw", raw |-> RawA]}
          ELSE IF id = IdB THEN {[kind |-> "raw", raw |-> RawB]}
          ELSE {})

Ids == {ZeroId, IdA, IdB}

SignFirst ==
    {InD(IdA, <<>>, <<>>, U32Max),
     InD(IdA, <<1>>, <<>>, U32Max),
     InD(IdA, <<2>>, <<>>, U32Max),
     InD(IdA, <<>>, SigRaw, U32Max),
     InD(IdA, <<1>>, RedeemRaw, U32Max),
     InD(IdB, <<>>, <<>>, U32Max),
     InD(ZeroId, U32Max, HeightRaw, U32Max)}

SignRest == {InD(IdA, <<>>, <<>>, U32Max)}

SignInSeqs ==
    {<<>>} \cup {<<f>> \o r : f \in SignFirst, r \in SeqsUpTo(SignRest, MaxIns - 1)}

SignTxDs ==
    {TxD(ins, <<OutD(<<80, 195>>, P2pkhRaw)>>, w, 1) :
        ins \in SignInSeqs, w \in {None}}
    \cup UNION {{TxD(ins, <<OutD(<<80, 195>>, P2pkhRaw)>>, Some([k \in 1..Len(ins) |-> Stack(m)]), 1) :
                    m \in {0, MaxItems}} : ins \in SignInSeqs}

SignStreams == {Wire(d, 0) : d \in {e \in SignTxDs : ~e.wits.isNone /\ Len(e.ins) <= 1}}

\* SIGHASH_ALL
HashTypes == {1}

Keys == {1}

----------------------------------------------------------------------------
(* The state machine *)

\* the caller's direct construction: Tx(version, [TxIn(...)], [TxOut(...)], ...)
FromD(d) ==
    Tx(d.version,
       [k \in 1..Len(d.ins) |->
           TxIn(d.ins[k].prev_tx, d.ins[k].prev_index, d.ins[k].script, d.ins[k].sequence)],
       [k \in 1..Len(d.outs) |-> TxOut(d.outs[k].amount, d.outs[k].script)],
       d.locktime, d.wits, d.flag, FALSE)

NoTx == Tx(<<>>, <<>>, <<>>, <<>>, None, 1, FALSE)

Ret(op, i, h, exc, val, lookups, pre) ==
    [op |-> op, i |-> i, h |-> h, exc |-> exc, val |-> val, lookups |-> lookups,
     pre |-> pre]

NoHist ==
    [n |-> 0, tx |-> NoTx, i |-> 0, h |-> 0, exc |-> "", val |-> <<>>, pre |-> FALSE]

Init ==
    /\ tx = NoTx
    /\ have = "new"
    /\ stream = <<>>
    /\ cache = <<>>
    /\ ret = Ret("none", 0, 0, "", <<>>, 0, FALSE)
    /\ serialized = {}
    /\ hist = NoHist
    /\ tampered = {}
    /\ signed = {}

Parse(B) ==
    /\ have = "new"
    /\ Bind(Tx_parse(B), LAMBDA r :
          /\ tx' = (IF r.exc = "" THEN r.val ELSE tx)
          /\ have' = (IF r.exc = "" THEN "tx" ELSE "failed")
          /\ ret' = Ret("parse", 0, 0, r.exc, <<>>, 0, FALSE))
    /\ stream' = B
    /\ serialized' = {}
    /\ UNCHANGED <<cache, hist, tampered, signed>>

Construct(d) ==
    /\ have = "new"
    /\ tx' = FromD(d)
    /\ have' = "tx"
    /\ ret' = Ret("construct", 0, 0, "", <<>>, 0, FALSE)
    /\ serialized' = {}
    /\ UNCHANGED <<stream, cache, hist, tampered, signed>>

Serialize ==
    /\ have = "tx"
    /\ Bind(Tx_serialize(tx), LAMBDA r :
          ret' = Ret("serialize", 0, 0, r.exc, r.val, 0, FALSE))
    /\ serialized' = {}
    /\ UNCHANGED <<tx, have, stream, cache, hist, tampered, signed>>

NwSerialize ==
    /\ have = "tx"
    /\ ret' = Ret("nw_serialize", 0, 0, "", Tx_nw_serialize(tx), 0, FALSE)
    /\ serialized' = {}
    /\ UNCHANGED <<tx, have, stream, cache, hist, tampered, signed>>

Txid ==
    /\ have = "tx"
    /\ ret' = Ret("txid", 0, 0, "", Tx_txid(tx), 0, FALSE)
    /\ serialized' = {}
    /\ UNCHANGED <<tx, have, stream, cache, hist, tampered, signed>>

Hash ==
    /\ have = "tx"
    /\ Bind(Tx_hash(tx), LAMBDA r :
          ret' = Ret("hash", 0, 0, r.exc, r.val, 0, FALSE))
    /\ serialized' = {}
    /\ UNCHANGED <<tx, have, stream, cache, hist, tampered, signed>>

IsCoinbase ==
    /\ have = "tx"
    /\ ret' = Ret("is_coinbase", 0, 0, "", Tx_is_coinbase(tx), 0, FALSE)
    /\ serialized' = {}
    /\ UNCHANGED <<tx, have, stream, cache, hist, tampered, signed>>

CoinbaseHeight ==
    /\ have = "tx"
    /\ Bind(Tx_coinbase_height(tx), LAMBDA r :
          ret' = Ret("coinbase_height", 0, 0, r.exc, r, 0, FALSE))
    /\ serialized' = {}
    /\ UNCHANGED <<tx, have, stream, cache, hist, tampered, signed>>

\* the answers the lookup may give to a call on input i of the Tx
RespFor(i) == IF i < Len(tx.tx_ins) THEN Responses(tx.tx_ins[i + 1].prev_tx)
              ELSE {[kind |-> "transport", raw |-> <<>>]}

\* the previous output of input i resolves, under this answer, to a locking
\* script of one of the given types
Resolves(i, resp, types) ==
    /\ i < Len(tx.tx_ins)
    /\ Bind(TxIn_script_pubkey(tx.tx_ins[i + 1], tx.testnet, cache, resp), LAMBDA sp :
          sp.exc = "" /\ Script_type(sp.val) \in types)

\* fetch_tx of any TxIn, of this transaction or of another one
FetchTx(id, resp) ==
    /\ have = "tx"
    /\ Bind(TxIn_fetch_tx(TxIn(id, <<>>, <<>>, U32Max), FALSE, cache, resp), LAMBDA r :
          /\ cache' = r.cache
          /\ ret' = Ret("fetch_tx", 0, 0, r.exc, id, r.lookups, id \in DOMAIN cache))
    /\ serialized' = {}
    /\ UNCHANGED <<tx, have, stream, hist, tampered, signed>>

SigHash(i, h, resp) ==
    /\ have = "tx"
    /\ Bind(Tx_sig_hash(tx, i, h, cache, resp), LAMBDA r :
          /\ cache' = r.cache
          /\ ret' = Ret("sig_hash", i, h, r.exc, r.val, r.lookups,
                        Resolves(i, resp, {"p2pkh", "p2sh"}))
          /\ serialized' = r.ser
          /\ hist' = (IF hist.n = 0
                      THEN [n |-> 1, tx |-> tx, i |-> i, h |-> h, exc |-> r.exc,
                            val |-> r.val, pre |-> Resolves(i, resp, {"p2pkh", "p2sh"})]
                      ELSE [hist EXCEPT !.n = 2]))
    /\ UNCHANGED <<tx, have, stream, tampered, signed>>

VerifyInput(i, resp) ==
    /\ have = "tx"
    /\ Bind(Tx_verify_input(tx, i, cache, resp), LAMBDA r :
          /\ cache' = r.cache
          /\ ret' = Ret("verify_input", i, 0, r.exc, r.val, r.lookups,
                        Resolves(i, resp, {"p2pkh", "p2sh"}))
          /\ serialized' = r.ser)
    /\ UNCHANGED <<tx, have, stream, hist, tampered, signed>>

SignInput(i, k, h, resp) ==
    /\ have = "tx"
    /\ Bind(Tx_sign_input(tx, i, k, h, cache, resp), LAMBDA r :
          /\ cache' = r.cache
          /\ tx' = r.tx
          /\ ret' = Ret("sign_input", i, h, r.exc, r.val, r.lookups,
                        /\ Resolves(i, resp, {"p2pkh"})
                        /\ tx.tx_ins[i + 1].script_sig.elements = <<>>)
          /\ serialized' = r.ser)
    /\ signed' = (IF Resolves(i, resp, {"p2pkh"})
                     /\ tx.tx_ins[i + 1].script_sig.elements = <<>>
                  THEN {i} ELSE {})
    /\ UNCHANGED <<have, stream, hist, tampered>>

\* the caller changes one byte of the signature input i carries
Tamper(i) ==
    /\ have = "tx"
    /\ i < Len(tx.tx_ins)
    /\ tampered = {}
    /\ Len(tx.tx_ins[i + 1].script_sig.elements) = 2
    /\ tx.tx_ins[i + 1].script_sig.elements[1].push
    /\ Len(tx.tx_ins[i + 1].script_sig.elements[1].data) >= 2
    /\ tx' = [tx EXCEPT !.tx_ins[i + 1].script_sig.elements[1].data[
                             Len(tx.tx_ins[i + 1].script_sig.elements[1].data) - 1] =
                             (@ + 1) % 256]
    /\ tampered' = tampered \cup {i}
    /\ ret' = Ret("tamper", i, 0, "", <<>>, 0, FALSE)
    /\ serialized' = {}
    /\ signed' = {}
    /\ UNCHANGED <<have, stream, cache, hist>>

CodecCalls ==
    \/ Serialize
    \/ NwSerialize
    \/ Txid
    \/ Hash
    \/ IsCoinbase
    \/ CoinbaseHeight

SignCalls ==
    \/ \E id \in Ids : \E resp \in Responses(id) : FetchTx(id, resp)
    \/ \E i \in 0..MaxIns : \E h \in HashTypes : \E resp \in RespFor(i) : SigHash(i, h, resp)
    \/ \E i \in 0..MaxIns : \E resp \in RespFor(i) : VerifyInput(i, resp)
    \/ \E i \in 0..MaxIns : \E k \in Keys : \E h \in HashTypes : \E resp \in RespFor(i) :
          SignInput(i, k, h, resp)
    \/ \E i \in 0..MaxIns : Tamper(i)

\* every operation, on the transactions the signing claims are about
Next ==
    \/ \E B \in SignStreams : Parse(B)
    \/ \E d \in SignTxDs : Construct(d)
    \/ CodecCalls
    \/ SignCalls

Spec == Init /\ [][Next]_vars

\* the codec alone, on a wide range of buffers and transactions
NextCodec ==
    \/ \E B \in Streams : Parse(B)
    \/ \E d \in CodecTxDs : Construct(d)
    \/ CodecCalls

SpecCodec == Init /\ [][NextCodec]_vars

----------------------------------------------------------------------------
(* The claims *)

\* C1: for every well-formed witness-format buffer B (marker 0, a nonzero
\* flag), Tx.parse(B).serialize() returns B byte for byte.
C1_RoundTrip ==
    (have = "tx" /\ stream \in WellFormedStreams /\ ret.op = "serialize")
        => (ret.exc = "" /\ ret.val = stream)

\* some witness stack of t holds an item
AnyWitness(t) ==
    ~t.witnesses.isNone /\ \E k \in 1..Len(t.witnesses.val) : t.witnesses.val[k] # <<>>

\* C3 as stated: when hash() returns, it differs from txid() if some witness
\* stack is non-empty and equals txid() if every witness stack is empty.
C3_Original ==
    (have = "tx" /\ ret.op = "hash" /\ ret.exc = "")
        => IF AnyWitness(tx) THEN ret.val # Tx_txid(tx) ELSE ret.val = Tx_txid(tx)

\* C3 as amended: whenever hash() returns, its value differs from txid(),
\* also when every witness stack is empty.
C3_HashDiffersFromTxid ==
    (have = "tx" /\ ret.op = "hash" /\ ret.exc = "") => ret.val # Tx_txid(tx)

\* hash() has returned on a transaction with inputs whose stacks are all empty
C3_Witness ==
    /\ have = "tx"
    /\ ret.op = "hash"
    /\ ret.exc = ""
    /\ Len(tx.tx_ins) >= 1
    /\ ~tx.witnesses.isNone
    /\ ~AnyWitness(tx)

\* C5: Tx.parse fails when the marker is not zero, when the flag is zero, or
\* when the stream ends before some field was read in full; it returns a Tx
\* only when every field was read completely.
C5_ParseNeverPartial ==
    (ret.op = "parse"
     /\ stream \in TruncatedStreams \cup BadMarkerStreams \cup BadFlagStreams)
        => ret.exc # ""

\* exactly one input, previous id 32 zero bytes, previous index 0xFFFFFFFF
CoinbaseShape(t) ==
    /\ Len(t.tx_ins) = 1
    /\ t.tx_ins[1].prev_tx = ZeroId
    /\ t.tx_ins[1].prev_index = U32Max

\* C8 as stated: is_coinbase() is true exactly for the coinbase shape, and
\* coinbase_height() returns the little-endian integer of the first element
\* of the unlocking script for that shape and None for every other one.
C8_Original ==
    /\ (have = "tx" /\ ret.op = "is_coinbase") => (ret.val = CoinbaseShape(tx))
    /\ (have = "tx" /\ ret.op = "coinbase_height")
          => /\ ret.exc = ""
             /\ ret.val.isNone = ~CoinbaseShape(tx)
             /\ CoinbaseShape(tx)
                   => ret.val.val = Canon(tx.tx_ins[1].script_sig.elements[1].data)

\* C8 as amended: the same, with coinbase_height() returning the integer
\* when the unlocking script starts with pushed data, and raising IndexError
\* when the unlocking script of a coinbase-shaped transaction is empty.
C8_Coinbase ==
    /\ (have = "tx" /\ ret.op = "is_coinbase") => (ret.val = CoinbaseShape(tx))
    /\ (have = "tx" /\ ret.op = "coinbase_height" /\ ~CoinbaseShape(tx))
          => (ret.exc = "" /\ ret.val.isNone)
    /\ (have = "tx" /\ ret.op = "coinbase_height" /\ CoinbaseShape(tx)
        /\ tx.tx_ins[1].script_sig.elements = <<>>)
          => ret.exc = "IndexError"
    /\ (have = "tx" /\ ret.op = "coinbase_height" /\ CoinbaseShape(tx)
        /\ tx.tx_ins[1].script_sig.elements # <<>>
        /\ tx.tx_ins[1].script_sig.elements[1].push)
          => /\ ret.exc = ""
             /\ ~ret.val.isNone
             /\ ret.val.val = Canon(tx.tx_ins[1].script_sig.elements[1].data)

\* coinbase_height() has returned the height 200000 of a coinbase
C8_Witness ==
    /\ have = "tx"
    /\ ret.op = "coinbase_height"
    /\ CoinbaseShape(tx)
    /\ ret.exc = ""
    /\ ~ret.val.isNone
    /\ ret.val.val = <<64, 13, 3>>

\* the digest the specification gives for clone a and hash type h: the
\* big-endian integer of the double hash of the non-witness serialization
\* followed by h as 4 little-endian bytes
SpecDigest(a, h) ==
    Canon(Reverse(double_sha256(Tx_nw_serialize(a) \o int_to_little_endian(NumOf(h), 4))))

\* C4: sig_hash(i, h), for an input whose previous output resolves to a
\* p2pkh or p2sh locking script, completes and returns the big-endian integer
\* of the double hash of the clone's non-witness serialization followed by h
\* as 4 little-endian bytes.
C4_SigHashDigest ==
    (have = "tx" /\ ret.op = "sig_hash" /\ ret.pre)
        => /\ ret.exc = ""
           /\ serialized # {}
           /\ \A a \in serialized : ret.val = SpecDigest(a, ret.h)

\* C2: sign_input(i, key, h) on an unsigned input whose previous output
\* resolves to a p2pkh locking script returns true, and a later verify_input(i)
\* on the unchanged transaction returns true.
C2_SignThenVerify ==
    /\ (have = "tx" /\ ret.op = "sign_input" /\ ret.pre)
          => (ret.exc = "" /\ ret.val = TRUE)
    /\ (have = "tx" /\ ret.op = "verify_input" /\ ret.i \in signed)
          => (ret.exc = "" /\ ret.val = TRUE)

\* every signature the unlocking script of input i requires verifies against
\* its public key over the specified digest of the clone verify_input built
AllSigsVerify(t, i) ==
    \A k \in 0..(Script_num_sigs_required(t.tx_ins[i + 1].script_sig) - 1) :
        Bind(TxIn_der_signature(t.tx_ins[i + 1], k), LAMBDA ds :
             /\ ds.exc = ""
             /\ \E a \in serialized :
                   S256Point_verify(S256Point_parse(TxIn_sec_pubkey(t.tx_ins[i + 1], k)),
                                    SpecDigest(a, ds.val[2]),
                                    Signature_parse(ds.val[1])))

\* C6: verify_input(i), for an input whose previous output resolves, returns
\* true exactly when every required signature verifies against its public key
\* over the digest, and reports a failing signature as the value false, never
\* as a raised error.
C6_VerifyInput ==
    (have = "tx" /\ ret.op = "verify_input" /\ ret.pre)
        => (ret.exc = "" /\ ret.val = AllSigsVerify(tx, ret.i))

\* C7: after a byte of the signature input i carries was changed,
\* verify_input(i) returns false.
C7_TamperDetection ==
    (have = "tx" /\ ret.op = "verify_input" /\ ret.pre /\ ret.i \in tampered)
        => (ret.exc = "" /\ ret.val = FALSE)

\* C9: two sig_hash(i, h) calls on the same transaction state with the same h
\* return the same digest, whatever was resolved, signed or verified between
\* them and whatever the class-level cache holds.
C9_SigHashDeterminism ==
    (have = "tx" /\ ret.op = "sig_hash" /\ hist.n = 2 /\ hist.tx = tx
     /\ hist.i = ret.i /\ hist.h = ret.h /\ hist.pre /\ ret.pre)
        => (hist.exc = "" /\ ret.exc = "" /\ ret.val = hist.val)

\* C10: a transaction whose witnesses is populated has one witness stack per
\* input, and sig_hash, verify_input and sign_input apply serialize() only to
\* a transaction that has one witness stack per input.
C10_WitnessCount ==
    /\ (have = "tx" /\ ~tx.witnesses.isNone)
          => Len(tx.witnesses.val) = Len(tx.tx_ins)
    /\ \A a \in serialized :
          ~a.witnesses.isNone /\ Len(a.witnesses.val) = Len(a.tx_ins)

\* the calls the mutation frame is about
FrameCalls ==
    {"serialize", "nw_serialize", "txid", "hash", "sig_hash", "verify_input",
     "is_coinbase", "coinbase_height", "sign_input"}

\* C11: a serialize, nw_serialize, txid, hash, sig_hash, verify_input,
\* is_coinbase, coinbase_height or sign_input call changes no field of the
\* transaction, except that sign_input(i, ...) may change the unlocking
\* script of input i.
C11_MutationFrame ==
    [][(have = "tx" /\ ret'.op \in FrameCalls)
          => IF ret'.op = "sign_input" /\ ret'.i < Len(tx.tx_ins)
             THEN tx' = [tx EXCEPT !.tx_ins[ret'.i + 1].script_sig =
                                       tx'.tx_ins[ret'.i + 1].script_sig]
             ELSE tx' = tx]_vars

\* sign_input(1, ...) has run on a transaction whose input 0 carries an
\* unlocking script and whose input 1 is unsigned and resolves to p2pkh
C11_Witness ==
    /\ have = "tx"
    /\ ret.op = "sign_input"
    /\ ret.pre
    /\ ret.i = 1
    /\ Len(tx.tx_ins) = 2
    /\ tx.tx_ins[1].script_sig.elements # <<>>

\* the previous output of input i is at hand after the call
HasPrevOut(i) ==
    /\ tx.tx_ins[i + 1].prev_tx \in DOMAIN cache
    /\ NatOf(tx.tx_ins[i + 1].prev_index) < Len(cache[tx.tx_ins[i + 1].prev_tx].tx_outs)

\* its locking script
PrevScript(i) ==
    cache[tx.tx_ins[i + 1].prev_tx].tx_outs[NatOf(tx.tx_ins[i + 1].prev_index) + 1].script_pubkey

\* the unlocking script of input i ends with a pushed redeem script
HasRedeem(i) ==
    /\ tx.tx_ins[i + 1].script_sig.elements # <<>>
    /\ tx.tx_ins[i + 1].script_sig.elements[Len(tx.tx_ins[i + 1].script_sig.elements)].push

\* the redeem script of input i, parsed
RedeemOf(i) ==
    Script_parse(
        tx.tx_ins[i + 1].script_sig.elements[Len(tx.tx_ins[i + 1].script_sig.elements)].data)

\* clone a has the inputs of tx, input i with the given unlocking script
\* and every other input with an empty one
CloneOf(a, i, script) ==
    /\ Len(a.tx_ins) = Len(tx.tx_ins)
    /\ \A k \in 1..Len(tx.tx_ins) :
          /\ a.tx_ins[k].prev_tx = tx.tx_ins[k].prev_tx
          /\ a.tx_ins[k].prev_index = tx.tx_ins[k].prev_index
          /\ a.tx_ins[k].sequence = tx.tx_ins[k].sequence
          /\ a.tx_ins[k].script_sig = (IF k = i + 1 THEN script ELSE Script(<<>>))

\* C12: in the clone sig_hash(i, h) hands to the serializer every input
\* other than i has an empty unlocking script; input i has the previous
\* output's locking script when that is p2pkh and the redeem script of the
\* real input i when it is p2sh; for any other classification sig_hash raises
\* and builds no clone.
C12_ScriptSubstitution ==
    (have = "tx" /\ ret.op = "sig_hash" /\ ret.i < Len(tx.tx_ins) /\ HasPrevOut(ret.i))
        => IF Script_type(PrevScript(ret.i)) = "p2pkh"
           THEN /\ serialized # {}
                /\ \A a \in serialized : CloneOf(a, ret.i, PrevScript(ret.i))
           ELSE IF Script_type(PrevScript(ret.i)) = "p2sh"
           THEN HasRedeem(ret.i)
                   => /\ serialized # {}
                      /\ \A a \in serialized : CloneOf(a, ret.i, RedeemOf(ret.i))
           ELSE /\ ret.exc = "RuntimeError: no valid sig_type"
                /\ serialized = {}

\* sig_hash(0, h) has run on a two-input transaction whose input 0 spends a
\* p2sh output and carries the redeem script <<81, 172>>
C12_Witness ==
    /\ have = "tx"
    /\ ret.op = "sig_hash"
    /\ ret.i = 0
    /\ Len(tx.tx_ins) = 2
    /\ HasPrevOut(0)
    /\ Script_type(PrevScript(0)) = "p2sh"
    /\ HasRedeem(0)
    /\ \E a \in serialized : a.tx_ins[1].script_sig = Script(<<Op(81), Op(172)>>)

\* what a failed lookup raises: a transport failure, or an answer without
\* the transaction
ResolutionErrors == {"ConnectionError", "RuntimeError: got from server"}

\* the calls that may look a previous transaction up
LookupCalls == {"fetch_tx", "sig_hash", "sign_input", "verify_input"}

\* the previous id call r on transaction t looked up
LookedUp(r, t) == IF r.op = "fetch_tx" THEN r.val ELSE t.tx_ins[r.i + 1].prev_tx

\* C13: a fetch_tx, sig_hash, sign_input or verify_input call whose lookup
\* fails raises that failure after exactly one lookup, adds no entry to the
\* cache and leaves the transaction, the unlocking script of input i
\* included, as it was; and a call whose lookup brought no transaction into
\* the cache never returns normally.
C13_ResolutionFailure ==
    [][(have = "tx" /\ ret'.op \in LookupCalls)
          => /\ ret'.exc \in ResolutionErrors
                  => /\ ret'.lookups = 1
                     /\ cache' = cache
                     /\ LookedUp(ret', tx) \notin DOMAIN cache'
                     /\ tx' = tx
             /\ (ret'.lookups >= 1 /\ LookedUp(ret', tx) \notin DOMAIN cache')
                  => ret'.exc # ""]_vars

\* sign_input(i, ...) has failed on a transport error for an input that
\* carries an unlocking script, with nothing in the cache
C13_Witness ==
    /\ have = "tx"
    /\ ret.op = "sign_input"
    /\ ret.exc = "ConnectionError"
    /\ ret.lookups = 1
    /\ ret.i < Len(tx.tx_ins)
    /\ tx.tx_ins[ret.i + 1].script_sig.elements # <<>>
    /\ DOMAIN cache = {}

====
